---- MODULE Spec2Model ----
(***************************************************************************)
(* PrivacyChain: proxy re-encryption sharing.  The state is the content of *)
(* the four tables of app/models/proxy_encryption.py plus the clock; one   *)
(* action per HTTP handler of app/api/routes/proxy_encryption.py and       *)
(* app/api/routes/secure_sharing.py, each built from the service and CRUD  *)
(* functions it calls.                                                     *)
(***************************************************************************)
EXTENDS Integers, Sequences, FiniteSets, TLC

(* ------------------------------ bounds -------------------------------- *)
MaxTime == 2
MaxProxyKeys == 2
MaxEncrypted == 2
MaxReEncrypted == 2

(* ------------------------------ inputs -------------------------------- *)
Locators == {"L1", "L2"}
Contents == {"record-A"}
OwnerPrivateKeys == {"sk_alice", "sk_eve"}
RecipientPrivateKeys == {"sk_bob", "sk_carol"}
PrivateKeys == OwnerPrivateKeys \cup RecipientPrivateKeys
ExpirationHours == {1}
AesKeys == {"k1"}
(* The sharing requests clients send: two recipients of one owner's record, *)
(* a second owner under the same locator, and a second locator.             *)
ShareRequests ==
  {[owner_private_key |-> "sk_alice", locator |-> "L1", recipient_public_key |-> "pk_bob"],
   [owner_private_key |-> "sk_alice", locator |-> "L1", recipient_public_key |-> "pk_carol"],
   [owner_private_key |-> "sk_eve", locator |-> "L1", recipient_public_key |-> "pk_bob"],
   [owner_private_key |-> "sk_alice", locator |-> "L2", recipient_public_key |-> "pk_bob"]}
(* The sealing requests sent on their own (encryptForOwner). *)
SealRequests == {[owner_public_key |-> "pk_alice", locator |-> "L1"]}
ChainAnswers == {"raises", "valid", "invalid"}

NoneTime == 0 - 1
NoId == NoneTime + 1

(* ECC.import_key(private).public_key().export_key(format='PEM') *)
PublicOf(sk) ==
  CASE sk = "sk_alice" -> "pk_alice"
    [] sk = "sk_eve"   -> "pk_eve"
    [] sk = "sk_bob"   -> "pk_bob"
    [] sk = "sk_carol" -> "pk_carol"

RecipientPublicKeys == {PublicOf(sk) : sk \in RecipientPrivateKeys}
OwnerPublicKeys == {PublicOf(sk) : sk \in OwnerPrivateKeys}

(* datetime.isoformat() / datetime.fromisoformat() *)
IsoFormat(t) == <<"iso", t>>
FromIsoFormat(s) == s[2]

(* base64.b64encode / b64decode *)
B64Encode(x) == <<"b64", x>>
B64Decode(s) == s[2]

(* AES-CBC of the padded content under aes_key *)
AesEncrypt(aes_key, content) == [aes_key |-> aes_key, plaintext |-> content]

(* hashlib.sha256(...).hexdigest() *)
Sha256(x) == <<"sha256", x>>

Placeholder == "[DECRYPTED_CONTENT_PLACEHOLDER]"

VARIABLES now, proxy_keys, encrypted_data, re_encrypted_data, share_records,
          response, revoke_acks, sessions

vars == <<now, proxy_keys, encrypted_data, re_encrypted_data, share_records,
          response, revoke_acks, sessions>>

db == <<proxy_keys, encrypted_data, re_encrypted_data, share_records>>

(* The response of the request being served: the handler, the row the      *)
(* request named, the key the caller presented, whether the handler        *)
(* returned or raised, and the returned value or the raised message.       *)
(* Handlers are synchronous: a request is taken when none is being served. *)
Result(op, id, key, status, detail) ==
  [op |-> op, id |-> id, key |-> key, status |-> status, detail |-> detail]

NoResponse == Result("none", NoId, "", "", "")
Idle == response = NoResponse

ProxyIds == 1..Len(proxy_keys)
ShareIds == 1..Len(share_records)
EncryptionIds == 1..Len(encrypted_data)

(* ------------------------ ProxyEncryptionService ---------------------- *)

encrypt_for_owner(content, owner_public_key, locator, aes_key, encryption_id) ==
  [encrypted_content |-> B64Encode(AesEncrypt(aes_key, content)),
   encrypted_key |-> B64Encode(aes_key),
   key_hash |-> Sha256(<<aes_key, owner_public_key>>),
   locator |-> locator,
   timestamp |-> IsoFormat(now),
   encryption_id |-> encryption_id]

generate_proxy_key(owner_private_key, recipient_public_key, locator, expiration_hours, proxy_id) ==
  LET proxy_data == [owner_key_point |-> PublicOf(owner_private_key),
                     recipient_key_point |-> recipient_public_key,
                     salt |-> proxy_id]
  IN [proxy_id |-> proxy_id,
      proxy_key_hash |-> Sha256(proxy_data),
      proxy_data |-> proxy_data,
      locator |-> locator,
      owner_public_key |-> PublicOf(owner_private_key),
      recipient_public_key |-> recipient_public_key,
      created_at |-> IsoFormat(now),
      expires_at |-> IsoFormat(now + expiration_hours),
      is_revoked |-> FALSE,
      salt |-> proxy_id]

(* A re_encrypt_data that never compares the two locators. *)
re_encrypt_data_any_locator(encrypted, proxy_key, re_encryption_id) ==
  IF proxy_key.is_revoked
    THEN [ok |-> FALSE, error |-> "Proxy key has been revoked"]
  ELSE IF now > FromIsoFormat(proxy_key.expires_at)
    THEN [ok |-> FALSE, error |-> "Proxy key has expired"]
  ELSE [ok |-> TRUE,
        value |-> [re_encrypted_content |-> encrypted.encrypted_content,
                   proxy_id |-> proxy_key.proxy_id,
                   original_encryption_id |-> encrypted.encryption_id,
                   recipient_public_key |-> proxy_key.recipient_public_key,
                   locator |-> proxy_key.locator,
                   re_encrypted_at |-> IsoFormat(now),
                   re_encryption_id |-> re_encryption_id]]

(* Raises when the presented key is revoked, expired, or bound to another  *)
(* locator; otherwise copies the ciphertext.                               *)
re_encrypt_data(encrypted, proxy_key, re_encryption_id) ==
  IF proxy_key.is_revoked
    THEN [ok |-> FALSE, error |-> "Proxy key has been revoked"]
  ELSE IF now > FromIsoFormat(proxy_key.expires_at)
    THEN [ok |-> FALSE, error |-> "Proxy key has expired"]
  ELSE IF encrypted.locator # proxy_key.locator
    THEN [ok |-> FALSE, error |-> "Locator mismatch between data and proxy key"]
  ELSE [ok |-> TRUE,
        value |-> [re_encrypted_content |-> encrypted.encrypted_content,
                   proxy_id |-> proxy_key.proxy_id,
                   original_encryption_id |-> encrypted.encryption_id,
                   recipient_public_key |-> proxy_key.recipient_public_key,
                   locator |-> proxy_key.locator,
                   re_encrypted_at |-> IsoFormat(now),
                   re_encryption_id |-> re_encryption_id]]

(* Imports the key, decodes the ciphertext and returns the placeholder.    *)
decrypt_for_recipient(re_encrypted, recipient_private_key) ==
  LET recipient_key == PublicOf(recipient_private_key)
      encrypted_content == B64Decode(re_encrypted.re_encrypted_content)
  IN [decrypted_content |-> Placeholder,
      locator |-> re_encrypted.locator]

Unauthorized == "Unauthorized: Only data owner can revoke proxy keys"

(* A revoke_proxy_key that skips the check of the caller's key. *)
revoke_proxy_key_unchecked(proxy_key, owner_private_key) ==
  [ok |-> TRUE, value |-> [revoked |-> TRUE], proxy_key |-> proxy_key]

(* The caller's key is checked against the owner_public_key of the dict it *)
(* is given; only then is the dict marked revoked and stamped.             *)
revoke_proxy_key(proxy_key, owner_private_key) ==
  IF proxy_key.owner_public_key # PublicOf(owner_private_key)
    THEN [ok |-> FALSE, error |-> Unauthorized, proxy_key |-> proxy_key]
    ELSE [ok |-> TRUE, value |-> [revoked |-> TRUE],
          proxy_key |-> [f \in DOMAIN proxy_key \cup {"is_revoked", "revoked_at"} |->
                           IF f = "is_revoked" THEN TRUE
                           ELSE IF f = "revoked_at" THEN IsoFormat(now)
                           ELSE proxy_key[f]]]

(* A verify_proxy_key_validity that never looks at expires_at. *)
verify_proxy_key_validity_no_expiry(proxy_key) ==
  IF proxy_key.is_revoked THEN [valid |-> FALSE, reason |-> "revoked"]
  ELSE [valid |-> TRUE, reason |-> "None"]

verify_proxy_key_validity(proxy_key) ==
  IF proxy_key.is_revoked THEN [valid |-> FALSE, reason |-> "revoked"]
  ELSE IF now > FromIsoFormat(proxy_key.expires_at)
    THEN [valid |-> FALSE, reason |-> "expired"]
  ELSE [valid |-> TRUE, reason |-> "None"]

(* -------------------------------- CRUD -------------------------------- *)

create_proxy_key(proxy_key) ==
  [proxy_id |-> proxy_key.proxy_id,
   locator |-> proxy_key.locator,
   owner_public_key |-> proxy_key.owner_public_key,
   recipient_public_key |-> proxy_key.recipient_public_key,
   proxy_key_hash |-> proxy_key.proxy_key_hash,
   proxy_data |-> proxy_key.proxy_data,
   created_at |-> now,
   expires_at |-> FromIsoFormat(proxy_key.expires_at),
   is_revoked |-> proxy_key.is_revoked,
   revoked_at |-> NoneTime]

(* A revoke_proxy_key that also ends the validity period of the row. *)
crud_revoke_proxy_key_expiring(keys, proxy_id) ==
  [i \in DOMAIN keys |->
     IF keys[i].proxy_id = proxy_id
       THEN [keys[i] EXCEPT !.is_revoked = TRUE, !.revoked_at = now, !.expires_at = now]
       ELSE keys[i]]

(* A revoke_proxy_key that flips the flag instead of setting it. *)
crud_revoke_proxy_key_toggle(keys, proxy_id) ==
  [i \in DOMAIN keys |->
     IF keys[i].proxy_id = proxy_id
       THEN [keys[i] EXCEPT !.is_revoked = ~keys[i].is_revoked, !.revoked_at = now]
       ELSE keys[i]]

(* ProxyKeyCRUD.revoke_proxy_key: the row, when it exists, is marked       *)
(* revoked and stamped with the current time.                              *)
crud_revoke_proxy_key(keys, proxy_id) ==
  [i \in DOMAIN keys |->
     IF keys[i].proxy_id = proxy_id
       THEN [keys[i] EXCEPT !.is_revoked = TRUE, !.revoked_at = now]
       ELSE keys[i]]

(* A bulk revocation that filters on the locator alone. *)
revoke_all_proxy_keys_any_owner(keys, locator, owner_public_key) ==
  [i \in DOMAIN keys |->
     IF keys[i].locator = locator /\ keys[i].is_revoked = FALSE
       THEN [keys[i] EXCEPT !.is_revoked = TRUE, !.revoked_at = now]
       ELSE keys[i]]

revoke_all_proxy_keys_for_locator(keys, locator, owner_public_key) ==
  [i \in DOMAIN keys |->
     IF /\ keys[i].locator = locator
        /\ keys[i].owner_public_key = owner_public_key
        /\ keys[i].is_revoked = FALSE
       THEN [keys[i] EXCEPT !.is_revoked = TRUE, !.revoked_at = now]
       ELSE keys[i]]

(* A row count that includes the rows already revoked. *)
revoked_count_all_matching(keys, locator, owner_public_key) ==
  Cardinality({i \in DOMAIN keys :
                 /\ keys[i].locator = locator
                 /\ keys[i].owner_public_key = owner_public_key})

(* The row count query.update() returns in revoke_all_proxy_keys_for_locator: *)
(* the rows its filter selected.                                              *)
revoked_count(keys, locator, owner_public_key) ==
  Cardinality({i \in DOMAIN keys :
                 /\ keys[i].locator = locator
                 /\ keys[i].owner_public_key = owner_public_key
                 /\ keys[i].is_revoked = FALSE})

cleanup_expired_proxy_keys(keys) ==
  [i \in DOMAIN keys |->
     IF keys[i].expires_at <= now /\ keys[i].is_revoked = FALSE
       THEN [keys[i] EXCEPT !.is_revoked = TRUE, !.revoked_at = now]
       ELSE keys[i]]

create_encrypted_data(encrypted) ==
  [encryption_id |-> encrypted.encryption_id,
   locator |-> encrypted.locator,
   owner_public_key |-> "",
   encrypted_content |-> encrypted.encrypted_content,
   encrypted_key |-> encrypted.encrypted_key,
   key_hash |-> encrypted.key_hash]

create_re_encrypted_data(re_encrypted) ==
  [re_encryption_id |-> re_encrypted.re_encryption_id,
   original_encryption_id |-> re_encrypted.original_encryption_id,
   proxy_id |-> re_encrypted.proxy_id,
   locator |-> re_encrypted.locator,
   recipient_public_key |-> re_encrypted.recipient_public_key,
   re_encrypted_content |-> re_encrypted.re_encrypted_content]

create_share_record(share_data) ==
  [share_id |-> share_data.share_id,
   locator |-> share_data.locator,
   owner_public_key |-> share_data.owner_public_key,
   recipient_public_key |-> share_data.recipient_public_key,
   encryption_id |-> share_data.encryption_id,
   proxy_id |-> share_data.proxy_id,
   re_encryption_id |-> share_data.re_encryption_id,
   is_active |-> TRUE]

(* A deactivate_share that writes nothing. *)
deactivate_share_noop(shares, share_id) == shares

(* A deactivate_share that deactivates every share of the same locator. *)
deactivate_share_locator(shares, share_id) ==
  [i \in DOMAIN shares |->
     IF \E j \in DOMAIN shares :
          shares[j].share_id = share_id /\ shares[j].locator = shares[i].locator
       THEN [shares[i] EXCEPT !.is_active = FALSE]
       ELSE shares[i]]

deactivate_share(shares, share_id) ==
  [i \in DOMAIN shares |->
     IF shares[i].share_id = share_id
       THEN [shares[i] EXCEPT !.is_active = FALSE]
       ELSE shares[i]]

deactivate_shares_by_proxy(shares, proxy_id) ==
  [i \in DOMAIN shares |->
     IF shares[i].proxy_id = proxy_id /\ shares[i].is_active = TRUE
       THEN [shares[i] EXCEPT !.is_active = FALSE]
       ELSE shares[i]]

get_re_encrypted_data_by_proxy(proxy_id) ==
  SelectSeq(re_encrypted_data, LAMBDA r : r.proxy_id = proxy_id)

(* ------------------------------- state -------------------------------- *)

(* The clients whose revokeShare requests may be in flight together, each  *)
(* served with a database session of its own.                              *)
Clients == {1, 2}

(* A request in flight: the line of revoke_data_share it has reached, its  *)
(* arguments, the proxy_key_dict it built from the row it read, and the    *)
(* answer once it has returned.                                            *)
NoSession ==
  [pc |-> "idle", share_id |-> NoId, owner_private_key |-> "",
   proxy_id |-> NoId, is_revoked |-> FALSE, status |-> "", detail |-> ""]

Init ==
  /\ now = 0
  /\ proxy_keys = <<>>
  /\ encrypted_data = <<>>
  /\ re_encrypted_data = <<>>
  /\ share_records = <<>>
  /\ response = NoResponse
  /\ revoke_acks = {}
  /\ sessions = [c \in Clients |-> NoSession]

(* datetime.utcnow() moves on between requests. *)
Tick ==
  /\ Idle
  /\ now < MaxTime
  /\ now' = now + 1
  /\ UNCHANGED <<sessions, db, response, revoke_acks>>

(* The response is sent to the client. *)
Respond ==
  /\ ~Idle
  /\ response' = NoResponse
  /\ UNCHANGED <<sessions, now, db, revoke_acks>>


(* ----------------- routes of api/routes/proxy_encryption.py ------------ *)

(* POST /encryptForOwner/ *)
EncryptForOwner ==
  \E content \in Contents, req \in SealRequests, aes_key \in AesKeys :
    /\ Idle
    /\ Len(encrypted_data) < MaxEncrypted
    /\ LET result == encrypt_for_owner(content, req.owner_public_key,
                                       req.locator, aes_key,
                                       Len(encrypted_data) + 1)
       IN /\ encrypted_data' = Append(encrypted_data, create_encrypted_data(result))
          /\ response' = Result("encryptForOwner", result.encryption_id, "", "ok", "")
    /\ UNCHANGED <<sessions, now, proxy_keys, re_encrypted_data, share_records, revoke_acks>>

(* What the call to the ledger does: it raises, or returns a transaction. *)
LedgerOutcomes == {"raises", "tx"}

NoTx == "None"

(* A ledger step without the try/except: the exception reaches the caller. *)
emit_to_ledger_unguarded(chain) ==
  [failed |-> chain = "raises",
   blockchain_tx |-> IF chain = "tx" THEN "tx" ELSE NoTx]

(* try: blockchain_service.<...>_on_chain(...) except Exception: the       *)
(* transaction hash is kept when there is one, the exception is swallowed. *)
emit_to_ledger(chain) ==
  [failed |-> FALSE,
   blockchain_tx |-> IF chain = "tx" THEN "tx" ELSE NoTx]

(* The bounds of the expiration_hours field of the request schemas. *)
MinExpirationHours == 1
MaxExpirationHours == 8760

(* A request validation that accepts any number of hours. *)
ValidExpirationHours_unbounded(expiration_hours) == TRUE

(* Field(24, ge=1, le=8760) of GenerateProxyKeyRequest, SecureShareRequest *)
(* and CreateShareRequest: a request outside the range is answered with a  *)
(* validation error before the handler runs.                               *)
ValidExpirationHours(expiration_hours) ==
  /\ expiration_hours >= MinExpirationHours
  /\ expiration_hours <= MaxExpirationHours

ValidationError == "validation error: expiration_hours"

(* The response of a request that carries expiration_hours. *)
IssueResult(op, id, key, status, detail, expiration_hours) ==
  [op |-> op, id |-> id, key |-> key, status |-> status, detail |-> detail,
   expiration_hours |-> expiration_hours]

(* POST /generateProxyKey/ with the hours drawn from Hours: the row is     *)
(* stored, then the ledger is called; the response does not carry the      *)
(* transaction.                                                            *)
GenerateProxyKeyWith(Hours) ==
  \E req \in ShareRequests, expiration_hours \in Hours, chain \in LedgerOutcomes :
    /\ Idle
    /\ IF ~ValidExpirationHours(expiration_hours)
         THEN /\ response' = IssueResult("generateProxyKey", NoId, req.owner_private_key,
                                        "error", ValidationError, expiration_hours)
              /\ UNCHANGED proxy_keys
         ELSE /\ Len(proxy_keys) < MaxProxyKeys
              /\ LET proxy_key == generate_proxy_key(req.owner_private_key,
                                     req.recipient_public_key, req.locator,
                                     expiration_hours, Len(proxy_keys) + 1)
                 IN /\ proxy_keys' = Append(proxy_keys, create_proxy_key(proxy_key))
                    /\ response' =
                         IF emit_to_ledger(chain).failed
                           THEN IssueResult("generateProxyKey", proxy_key.proxy_id,
                                  req.owner_private_key, "error", "ledger", expiration_hours)
                           ELSE IssueResult("generateProxyKey", proxy_key.proxy_id,
                                  req.owner_private_key, "ok", "", expiration_hours)
    /\ UNCHANGED <<sessions, now, encrypted_data, re_encrypted_data, share_records, revoke_acks>>

GenerateProxyKey == GenerateProxyKeyWith(ExpirationHours)

(* POST /createSecureShare/ : create_secure_share, then the four rows. *)
CreateSecureShareWith(Hours) ==
  \E content \in Contents, req \in ShareRequests,
     expiration_hours \in Hours, aes_key \in AesKeys :
    LET locator == req.locator
        owner_private_key == req.owner_private_key
        recipient_public_key == req.recipient_public_key
    IN
    /\ Idle
    /\ IF ~ValidExpirationHours(expiration_hours)
         THEN /\ response' = IssueResult("createSecureShare", NoId, owner_private_key,
                                   "error", ValidationError, expiration_hours)
              /\ UNCHANGED db
         ELSE /\ Len(proxy_keys) < MaxProxyKeys
              /\ Len(encrypted_data) < MaxEncrypted
              /\ Len(re_encrypted_data) < MaxReEncrypted
              /\ LET encrypted == encrypt_for_owner(content, PublicOf(owner_private_key),
                                                    locator, aes_key, Len(encrypted_data) + 1)
                     proxy_key == generate_proxy_key(owner_private_key, recipient_public_key,
                                                     locator, expiration_hours,
                                                     Len(proxy_keys) + 1)
                     re_encrypted == re_encrypt_data(encrypted, proxy_key,
                                                     Len(re_encrypted_data) + 1)
                     share_id == Len(share_records) + 1
                 IN IF ~re_encrypted.ok
                      THEN /\ response' = IssueResult("createSecureShare", NoId, owner_private_key,
                                             "error", re_encrypted.error, expiration_hours)
                           /\ UNCHANGED db
                      ELSE /\ encrypted_data' = Append(encrypted_data, create_encrypted_data(encrypted))
                           /\ proxy_keys' = Append(proxy_keys, create_proxy_key(proxy_key))
                           /\ re_encrypted_data' =
                                Append(re_encrypted_data, create_re_encrypted_data(re_encrypted.value))
                           /\ share_records' = Append(share_records, create_share_record(
                                [share_id |-> share_id,
                                 locator |-> locator,
                                 owner_public_key |-> proxy_key.owner_public_key,
                                 recipient_public_key |-> proxy_key.recipient_public_key,
                                 encryption_id |-> encrypted.encryption_id,
                                 proxy_id |-> proxy_key.proxy_id,
                                 re_encryption_id |-> re_encrypted.value.re_encryption_id]))
                           /\ response' = IssueResult("createSecureShare", share_id, owner_private_key,
                                             "ok", content, expiration_hours)
    /\ UNCHANGED <<sessions, now, revoke_acks>>

CreateSecureShare == CreateSecureShareWith(ExpirationHours)

(* The proxy_key dict a client sends with a request naming proxy_id: the   *)
(* response of generateProxyKey as the client kept it (is_revoked false) or *)
(* a copy with the row's current flag, with any owner_public_key written    *)
(* into it.  A proxy_id no row has comes alone.                             *)
PresentedProxyKeys(proxy_id) ==
  IF proxy_id \in ProxyIds
    THEN {[proxy_id |-> proxy_id,
           locator |-> proxy_keys[proxy_id].locator,
           owner_public_key |-> owner,
           recipient_public_key |-> proxy_keys[proxy_id].recipient_public_key,
           expires_at |-> IsoFormat(proxy_keys[proxy_id].expires_at),
           is_revoked |-> revoked] :
            owner \in OwnerPublicKeys,
            revoked \in {FALSE, proxy_keys[proxy_id].is_revoked}}
    ELSE {[proxy_id |-> proxy_id]}

(* The proxy_key dict that mirrors the stored row. *)
StoredProxyKey(proxy_id) ==
  [proxy_id |-> proxy_id,
   locator |-> proxy_keys[proxy_id].locator,
   owner_public_key |-> proxy_keys[proxy_id].owner_public_key,
   recipient_public_key |-> proxy_keys[proxy_id].recipient_public_key,
   expires_at |-> IsoFormat(proxy_keys[proxy_id].expires_at),
   is_revoked |-> proxy_keys[proxy_id].is_revoked]

(* The encrypted_data dict a client sends: the response of encryptForOwner  *)
(* for a stored row.                                                        *)
PresentedEncryptedData ==
  {[encryption_id |-> encrypted_data[i].encryption_id,
    locator |-> encrypted_data[i].locator,
    encrypted_content |-> encrypted_data[i].encrypted_content] : i \in EncryptionIds}

(* POST /reEncryptData/ : the stored row decides 404 and 403, the service   *)
(* then runs on the two dicts of the request.                               *)
route_re_encrypt_data(encrypted, proxy_key) ==
  IF proxy_key.proxy_id \notin ProxyIds
    THEN [ok |-> FALSE, error |-> "Proxy key not found"]
  ELSE IF proxy_keys[proxy_key.proxy_id].is_revoked
    THEN [ok |-> FALSE, error |-> "Proxy key has been revoked"]
  ELSE IF now > proxy_keys[proxy_key.proxy_id].expires_at
    THEN [ok |-> FALSE, error |-> "Proxy key has expired"]
  ELSE re_encrypt_data(encrypted, proxy_key, Len(re_encrypted_data) + 1)

ReEncryptDataWith(Presented) ==
  \E proxy_id \in 1..(Len(proxy_keys) + 1), encrypted \in PresentedEncryptedData :
    \E proxy_key \in Presented[proxy_id] :
      LET result == route_re_encrypt_data(encrypted, proxy_key)
      IN /\ Idle
         /\ result.ok => Len(re_encrypted_data) < MaxReEncrypted
         /\ re_encrypted_data' =
              IF result.ok
                THEN Append(re_encrypted_data, create_re_encrypted_data(result.value))
                ELSE re_encrypted_data
         /\ response' = Result("reEncryptData", proxy_id, "",
                           IF result.ok THEN "ok" ELSE "error",
                           IF result.ok THEN "" ELSE result.error)
         /\ UNCHANGED <<sessions, now, proxy_keys, encrypted_data, share_records, revoke_acks>>

ReEncryptData ==
  ReEncryptDataWith([proxy_id \in 1..(Len(proxy_keys) + 1) |-> PresentedProxyKeys(proxy_id)])

(* POST /revokeProxyKey/ : the authority check runs on the request's dict,  *)
(* the update on the row named by its proxy_id.                             *)
route_revoke_proxy_key(proxy_key, owner_private_key) ==
  IF proxy_key.proxy_id \notin ProxyIds
    THEN [ok |-> FALSE, error |-> "Proxy key not found",
          keys |-> proxy_keys, shares |-> share_records]
  ELSE LET result == revoke_proxy_key(proxy_key, owner_private_key)
       IN IF ~result.ok
            THEN [ok |-> FALSE, error |-> result.error,
                  keys |-> proxy_keys, shares |-> share_records]
            ELSE [ok |-> TRUE, error |-> "",
                  keys |-> crud_revoke_proxy_key(proxy_keys, proxy_key.proxy_id),
                  shares |-> deactivate_shares_by_proxy(share_records, proxy_key.proxy_id)]

RevokeProxyKey ==
  \E proxy_id \in 1..(Len(proxy_keys) + 1), owner_private_key \in OwnerPrivateKeys :
    \E proxy_key \in PresentedProxyKeys(proxy_id) :
      LET result == route_revoke_proxy_key(proxy_key, owner_private_key)
      IN /\ Idle
         /\ proxy_keys' = result.keys
         /\ share_records' = result.shares
         /\ response' = Result("revokeProxyKey", proxy_id, owner_private_key,
                           IF result.ok THEN "ok" ELSE "error", result.error)
         /\ UNCHANGED <<sessions, now, encrypted_data, re_encrypted_data, revoke_acks>>

(* POST /verifyProxyKey/ : the row is looked up for existence only; the     *)
(* verdict comes from the request's dict, then from the ledger when the     *)
(* ledger answers.                                                          *)
route_verify_proxy_key(proxy_key, chain) ==
  IF proxy_key.proxy_id \notin ProxyIds
    THEN [valid |-> FALSE, reason |-> "not_found"]
  ELSE LET result == verify_proxy_key_validity(proxy_key)
       IN IF chain = "invalid" /\ result.valid
            THEN [valid |-> FALSE, reason |-> "revoked_on_chain"]
            ELSE result

VerifyProxyKey ==
  \E proxy_id \in 1..(Len(proxy_keys) + 1), chain \in ChainAnswers :
    \E proxy_key \in PresentedProxyKeys(proxy_id) :
      LET result == route_verify_proxy_key(proxy_key, chain)
      IN /\ Idle
         /\ response' = Result("verifyProxyKey", proxy_id, "",
                           IF result.valid THEN "valid" ELSE "invalid", result.reason)
         /\ UNCHANGED <<sessions, now, db, revoke_acks>>

(* DELETE /revokeAllProxyKeys/{locator} *)
RevokeAllProxyKeys ==
  \E locator \in Locators, owner_public_key \in OwnerPublicKeys :
    /\ Idle
    /\ proxy_keys' = revoke_all_proxy_keys_for_locator(proxy_keys, locator, owner_public_key)
    /\ response' = [op |-> "revokeAllProxyKeys", id |-> NoId, key |-> owner_public_key,
                    status |-> "ok", detail |-> locator,
                    revoked_count |-> revoked_count(proxy_keys, locator, owner_public_key)]
    /\ UNCHANGED <<sessions, now, encrypted_data, re_encrypted_data, share_records, revoke_acks>>

(* ProxyKeyCRUD.cleanup_expired_proxy_keys *)
CleanupExpiredProxyKeys ==
  /\ Idle
  /\ proxy_keys' = cleanup_expired_proxy_keys(proxy_keys)
  /\ response' = Result("cleanupExpiredProxyKeys", NoId, "", "ok", "")
  /\ UNCHANGED <<sessions, now, encrypted_data, re_encrypted_data, share_records, revoke_acks>>

(* ------------------ routes of api/routes/secure_sharing.py ------------- *)

(* POST /createShare/ : create_data_share starts by calling                *)
(* TrackingCRUD.get_tracking_by_locator, which TrackingCRUD does not       *)
(* define, so the call raises before any row is read or written.           *)
create_data_share(locator, owner_private_key, recipient_public_key, expiration_hours) ==
  [ok |-> FALSE,
   error |-> "type object 'TrackingCRUD' has no attribute 'get_tracking_by_locator'"]

CreateShare ==
  \E req \in ShareRequests, expiration_hours \in ExpirationHours :
    LET result == create_data_share(req.locator, req.owner_private_key,
                                    req.recipient_public_key, expiration_hours)
    IN /\ Idle
       /\ ~result.ok
       /\ response' = Result("createShare", NoId, req.owner_private_key, "error", result.error)
       /\ UNCHANGED <<sessions, now, db, revoke_acks>>

(* SecureSharingService.revoke_data_share: outcome and tables afterwards.  *)
revoke_data_share(share_id, owner_private_key) ==
  IF share_id \notin ShareIds
    THEN [ok |-> FALSE, error |-> "Share record not found",
          keys |-> proxy_keys, shares |-> share_records]
  ELSE LET share_record == share_records[share_id] IN
  IF share_record.proxy_id \notin ProxyIds
    THEN [ok |-> FALSE, error |-> "Proxy key not found",
          keys |-> proxy_keys, shares |-> share_records]
  ELSE LET proxy_key_record == proxy_keys[share_record.proxy_id]
           proxy_key_dict == [proxy_id |-> proxy_key_record.proxy_id,
                              owner_public_key |-> proxy_key_record.owner_public_key,
                              is_revoked |-> proxy_key_record.is_revoked]
           result == revoke_proxy_key(proxy_key_dict, owner_private_key)
       IN IF ~result.ok
            THEN [ok |-> FALSE, error |-> result.error,
                  keys |-> proxy_keys, shares |-> share_records]
            ELSE [ok |-> TRUE, error |-> "",
                  keys |-> crud_revoke_proxy_key(proxy_keys, proxy_key_record.proxy_id),
                  shares |-> deactivate_share(share_records, share_id)]

(* POST /revokeShare/ : after the rows are written the ledger is called;   *)
(* the response carries the transaction when there is one.                 *)
RevokeShare ==
  \E share_id \in 1..(Len(share_records) + 1), owner_private_key \in OwnerPrivateKeys,
     chain \in LedgerOutcomes :
    LET result == revoke_data_share(share_id, owner_private_key)
        emitted == emit_to_ledger(chain)
        ok == result.ok /\ ~emitted.failed
    IN /\ Idle
       /\ proxy_keys' = result.keys
       /\ share_records' = result.shares
       /\ response' = [op |-> "revokeShare", id |-> share_id, key |-> owner_private_key,
                       status |-> IF ok THEN "ok" ELSE "error",
                       detail |-> IF result.ok /\ emitted.failed THEN "ledger"
                                  ELSE result.error,
                       blockchain_tx |-> IF result.ok THEN emitted.blockchain_tx ELSE NoTx]
       /\ revoke_acks' = IF ok THEN revoke_acks \cup {share_id} ELSE revoke_acks
       /\ UNCHANGED <<sessions, now, encrypted_data, re_encrypted_data>>

(* SecureSharingService.get_shared_data *)
get_shared_data(share_id, recipient_private_key) ==
  IF share_id \notin ShareIds
    THEN [ok |-> FALSE, error |-> "Share record not found"]
  ELSE LET share_record == share_records[share_id] IN
  IF ~share_record.is_active
    THEN [ok |-> FALSE, error |-> "Share has been deactivated"]
  ELSE IF share_record.proxy_id \notin ProxyIds
          \/ proxy_keys[share_record.proxy_id].is_revoked
    THEN [ok |-> FALSE, error |-> "Proxy key has been revoked"]
  ELSE IF now > proxy_keys[share_record.proxy_id].expires_at
    THEN [ok |-> FALSE, error |-> "Proxy key has expired"]
  ELSE LET re_encrypted_records == get_re_encrypted_data_by_proxy(share_record.proxy_id) IN
  IF re_encrypted_records = <<>>
    THEN [ok |-> FALSE, error |-> "Re-encrypted data not found"]
  ELSE LET decrypted_result == decrypt_for_recipient(
             [re_encrypted_content |-> re_encrypted_records[1].re_encrypted_content,
              locator |-> re_encrypted_records[1].locator,
              re_encryption_id |-> re_encrypted_records[1].re_encryption_id],
             recipient_private_key)
       IN [ok |-> TRUE, decrypted_content |-> decrypted_result.decrypted_content]

(* POST /accessShare/ *)
AccessShare ==
  \E share_id \in 1..(Len(share_records) + 1), recipient_private_key \in RecipientPrivateKeys :
    LET result == get_shared_data(share_id, recipient_private_key)
    IN /\ Idle
       /\ response' = Result("accessShare", share_id, recipient_private_key,
                         IF result.ok THEN "ok" ELSE "error",
                         IF result.ok THEN result.decrypted_content ELSE result.error)
       /\ UNCHANGED <<sessions, now, db, revoke_acks>>

(* DELETE /revokeAllShares/{locator} : the bulk revocation of the owner's   *)
(* keys, then every active share row of the locator is deactivated.         *)
route_revoke_all_shares_for_locator(shares, locator) ==
  [i \in DOMAIN shares |->
     IF shares[i].locator = locator /\ shares[i].is_active = TRUE
       THEN deactivate_share(shares, shares[i].share_id)[i]
       ELSE shares[i]]

RevokeAllShares ==
  \E locator \in Locators, owner_public_key \in OwnerPublicKeys :
    /\ Idle
    /\ proxy_keys' = revoke_all_proxy_keys_for_locator(proxy_keys, locator, owner_public_key)
    /\ share_records' = route_revoke_all_shares_for_locator(share_records, locator)
    /\ response' = Result("revokeAllShares", NoId, owner_public_key, "ok", locator)
    /\ UNCHANGED <<sessions, now, encrypted_data, re_encrypted_data, revoke_acks>>

Next ==
  \/ Tick
  \/ Respond
  \/ ReEncryptData
  \/ RevokeProxyKey
  \/ VerifyProxyKey
  \/ RevokeAllProxyKeys
  \/ CleanupExpiredProxyKeys
  \/ RevokeAllShares
  \/ GenerateProxyKey
  \/ CreateSecureShare
  \/ CreateShare
  \/ RevokeShare
  \/ AccessShare

Spec == Init /\ [][Next]_vars

(***************************************************************************)
(* Revocation                                                              *)
(***************************************************************************)

(* The proxy key row behind a share row. *)
KeyOfShare(share_id) == proxy_keys[share_records[share_id].proxy_id]

C2_VerifyAfterRevokeReportsRevoked ==
  (/\ response.op = "verifyProxyKey"
   /\ response.id \in ProxyIds
   /\ proxy_keys[response.id].is_revoked)
    => (response.status = "invalid" /\ response.detail = "revoked")

(* C3: no operation takes the revoked flag of a stored proxy key from true *)
(* back to false.                                                          *)
C3_RevokedIsMonotonic ==
  [][\A p \in ProxyIds :
       proxy_keys[p].is_revoked => (p \in DOMAIN proxy_keys' /\ proxy_keys'[p].is_revoked)]_vars

(* A proxy key revoked at an earlier time, still revoked after a second    *)
(* revocation, a bulk revocation or the expiry sweep ran over it.          *)
C3_Witness ==
  /\ response.op \in {"revokeShare", "revokeProxyKey", "revokeAllProxyKeys",
                      "revokeAllShares", "cleanupExpiredProxyKeys"}
  /\ response.status = "ok"
  /\ \E p \in ProxyIds :
       /\ proxy_keys[p].is_revoked
       /\ proxy_keys[p].expires_at <= now
       /\ proxy_keys[p].revoked_at < now

(* C4: revokeShare by the owner on a share already revoked succeeds again, *)
(* leaves the proxy key revoked and leaves revoked_at as the earlier call  *)
(* wrote it.                                                               *)
C4_SecondRevokeKeepsRevokedAt ==
  [][\A s \in revoke_acks :
       (/\ response'.op = "revokeShare"
        /\ response'.id = s
        /\ PublicOf(response'.key) = KeyOfShare(s).owner_public_key)
         => (/\ response'.status = "ok"
             /\ proxy_keys'[share_records[s].proxy_id].is_revoked
             /\ proxy_keys'[share_records[s].proxy_id].revoked_at = KeyOfShare(s).revoked_at)]_vars

(* C5: revokeShare with a private key whose public key is not the          *)
(* owner_public_key of the share's proxy key fails with Unauthorized, as   *)
(* revoke_proxy_key does on the dict built from the stored row, and leaves *)
(* the proxy key rows and the share rows as they were.                     *)
C5_NonOwnerRevokeIsRejected ==
  [][\A s \in ShareIds :
       (/\ Idle
        /\ response'.op = "revokeShare"
        /\ response'.id = s
        /\ PublicOf(response'.key) # KeyOfShare(s).owner_public_key)
         => (/\ ~revoke_proxy_key(StoredProxyKey(share_records[s].proxy_id), response'.key).ok
             /\ revoke_proxy_key(StoredProxyKey(share_records[s].proxy_id), response'.key).proxy_key
                  = StoredProxyKey(share_records[s].proxy_id)
             /\ response'.status = "error"
             /\ response'.detail = Unauthorized
             /\ proxy_keys' = proxy_keys
             /\ share_records' = share_records
             /\ revoke_acks' = revoke_acks)]_vars

(* A revokeShare refused to a caller who does not own the share, which is  *)
(* still active and whose proxy key is still unrevoked.                    *)
C5_Witness ==
  /\ response.op = "revokeShare"
  /\ response.id \in ShareIds
  /\ PublicOf(response.key) # KeyOfShare(response.id).owner_public_key
  /\ response.detail = Unauthorized
  /\ share_records[response.id].is_active
  /\ ~KeyOfShare(response.id).is_revoked
  /\ KeyOfShare(response.id).revoked_at = NoneTime

(* Two shares made by the same owner on the same locator for two           *)
(* recipients.                                                             *)
Siblings(b, c) ==
  /\ b # c
  /\ share_records[b].proxy_id # share_records[c].proxy_id
  /\ KeyOfShare(b).owner_public_key = KeyOfShare(c).owner_public_key
  /\ KeyOfShare(b).locator = KeyOfShare(c).locator
  /\ KeyOfShare(b).recipient_public_key # KeyOfShare(c).recipient_public_key

(* The private key of the recipient a share was made for. *)
RecipientOf(share_id) ==
  CHOOSE sk \in RecipientPrivateKeys :
    PublicOf(sk) = KeyOfShare(share_id).recipient_public_key

(* C6: revokeShare on one of two shares of the same owner and locator for  *)
(* different recipients leaves the other share's proxy key row and share   *)
(* row unchanged; when the other proxy key was valid it is still valid,    *)
(* and when its recipient could access the share the recipient still can.  *)
C6_RevokeLeavesSiblingAlone ==
  [][\A b, c \in ShareIds :
       (/\ Idle
        /\ response'.op = "revokeShare"
        /\ response'.id = b
        /\ Siblings(b, c))
         => (/\ proxy_keys'[share_records[c].proxy_id] = KeyOfShare(c)
             /\ share_records'[c] = share_records[c]
             /\ verify_proxy_key_validity(StoredProxyKey(share_records[c].proxy_id)).valid
                  => verify_proxy_key_validity(StoredProxyKey(share_records[c].proxy_id))'.valid
             /\ get_shared_data(c, RecipientOf(c)).ok
                  => get_shared_data(c, RecipientOf(c))'.ok)]_vars

(* A share just revoked by its owner while the share of the same owner and *)
(* locator for the other recipient is still valid and still accessible.    *)
C6_Witness ==
  /\ response.op = "revokeShare"
  /\ response.status = "ok"
  /\ response.id \in ShareIds
  /\ KeyOfShare(response.id).is_revoked
  /\ \E c \in ShareIds :
       /\ Siblings(response.id, c)
       /\ verify_proxy_key_validity(StoredProxyKey(share_records[c].proxy_id)).valid
       /\ get_shared_data(c, RecipientOf(c)).ok

(* C7: the bulk revocation for a locator and an owner public key changes   *)
(* no proxy key row of another locator, and no row of that locator held by *)
(* another owner: their revoked flag and revoked_at stay as they were.     *)
C7_BulkRevokeTouchesOnlyMatching ==
  [][(/\ Idle
      /\ response'.op \in {"revokeAllProxyKeys", "revokeAllShares"})
       => \A p \in ProxyIds :
            (\/ proxy_keys[p].locator # response'.detail
             \/ proxy_keys[p].owner_public_key # response'.key)
              => proxy_keys'[p] = proxy_keys[p]]_vars

(* A bulk revocation that revoked a proxy key of the named owner while a   *)
(* proxy key of the same locator held by another owner stays unrevoked.    *)
C7_Witness ==
  /\ response.op = "revokeAllProxyKeys"
  /\ \E p, q \in ProxyIds :
       /\ proxy_keys[p].locator = response.detail
       /\ proxy_keys[p].owner_public_key = response.key
       /\ proxy_keys[p].is_revoked
       /\ proxy_keys[p].revoked_at = now
       /\ proxy_keys[q].locator = response.detail
       /\ proxy_keys[q].owner_public_key # response.key
       /\ ~proxy_keys[q].is_revoked
       /\ proxy_keys[q].revoked_at = NoneTime

(***************************************************************************)
(* Expiry                                                                  *)
(***************************************************************************)

(* A stored proxy key that was never revoked or swept and whose expires_at *)
(* is earlier than the current time.                                       *)
ExpiredUnrevoked(proxy_id) ==
  /\ proxy_id \in ProxyIds
  /\ ~proxy_keys[proxy_id].is_revoked
  /\ proxy_keys[proxy_id].revoked_at = NoneTime
  /\ proxy_keys[proxy_id].expires_at < now

(* C8: a proxy key whose expires_at is earlier than the current time and   *)
(* that no revocation or sweep has touched is reported invalid with reason *)
(* "expired" by the validity check, and accessShare and reEncryptData      *)
(* against it fail.                                                        *)
C8_ExpiredIsInvalidWithoutRevoke ==
  /\ \A p \in ProxyIds :
       ExpiredUnrevoked(p) =>
         verify_proxy_key_validity(StoredProxyKey(p)) = [valid |-> FALSE, reason |-> "expired"]
  /\ (response.op = "verifyProxyKey" /\ ExpiredUnrevoked(response.id))
       => (response.status = "invalid" /\ response.detail = "expired")
  /\ (response.op = "reEncryptData" /\ ExpiredUnrevoked(response.id))
       => (response.status = "error" /\ response.detail = "Proxy key has expired")
  /\ (/\ response.op = "accessShare"
      /\ response.id \in ShareIds
      /\ ExpiredUnrevoked(share_records[response.id].proxy_id))
       => (/\ response.status = "error"
           /\ share_records[response.id].is_active
                => response.detail = "Proxy key has expired")

(* An accessShare refused on an active share whose proxy key has expired   *)
(* and was never revoked.                                                  *)
C8_Witness ==
  /\ response.op = "accessShare"
  /\ response.id \in ShareIds
  /\ share_records[response.id].is_active
  /\ ExpiredUnrevoked(share_records[response.id].proxy_id)
  /\ response.detail = "Proxy key has expired"

(***************************************************************************)
(* Access                                                                  *)
(***************************************************************************)

(* C9: accessShare with a private key whose public key is not the          *)
(* recipient_public_key of the share's proxy key fails with Unauthorized   *)
(* and returns no content.                                                 *)
C9_WrongRecipientIsRejected ==
  (/\ response.op = "accessShare"
   /\ response.id \in ShareIds
   /\ PublicOf(response.key) # KeyOfShare(response.id).recipient_public_key)
    => (response.status = "error" /\ response.detail = "Unauthorized")

(* The content sealed in the encrypted_data row a share points to. *)
PlaintextOf(share_id) ==
  B64Decode(encrypted_data[share_records[share_id].encryption_id].encrypted_content).plaintext

(* C10: accessShare by the recipient on a share that is active, unrevoked  *)
(* and unexpired returns exactly the content the share was created with.   *)
C10_RoundTrip ==
  (/\ response.op = "accessShare"
   /\ response.id \in ShareIds
   /\ PublicOf(response.key) = KeyOfShare(response.id).recipient_public_key
   /\ share_records[response.id].is_active
   /\ ~KeyOfShare(response.id).is_revoked
   /\ now <= KeyOfShare(response.id).expires_at)
    => (response.status = "ok" /\ response.detail = PlaintextOf(response.id))

(***************************************************************************)
(* Integrity of the stored proxy key                                       *)
(***************************************************************************)

(* The proxy_key dict of generate_proxy_key as the stored row holds it. *)
ProxyKeyDict(proxy_id) ==
  [proxy_id |-> proxy_id,
   proxy_key_hash |-> proxy_keys[proxy_id].proxy_key_hash,
   proxy_data |-> proxy_keys[proxy_id].proxy_data,
   locator |-> proxy_keys[proxy_id].locator,
   owner_public_key |-> proxy_keys[proxy_id].owner_public_key,
   recipient_public_key |-> proxy_keys[proxy_id].recipient_public_key,
   created_at |-> IsoFormat(proxy_keys[proxy_id].created_at),
   expires_at |-> IsoFormat(proxy_keys[proxy_id].expires_at),
   is_revoked |-> proxy_keys[proxy_id].is_revoked]

(* The proxy_data column of a stored row is overwritten outside the        *)
(* application: the recipient point of the transform is replaced.          *)
TamperProxyData ==
  \E p \in ProxyIds, pk \in RecipientPublicKeys :
    /\ Idle
    /\ pk # proxy_keys[p].proxy_data.recipient_key_point
    /\ proxy_keys' = [proxy_keys EXCEPT ![p].proxy_data.recipient_key_point = pk]
    /\ UNCHANGED <<sessions, now, encrypted_data, re_encrypted_data, share_records,
                   response, revoke_acks>>

(* ProxyEncryptionService.verify_proxy_key_validity on the stored row. *)
CheckValidity ==
  \E p \in ProxyIds :
    LET result == verify_proxy_key_validity(ProxyKeyDict(p))
    IN /\ Idle
       /\ response' = Result("checkValidity", p, "",
                         IF result.valid THEN "valid" ELSE "invalid", result.reason)
       /\ UNCHANGED <<sessions, now, db, revoke_acks>>

NextTamper ==
  \/ Tick
  \/ Respond
  \/ GenerateProxyKey
  \/ TamperProxyData
  \/ CheckValidity

SpecTamper == Init /\ [][NextTamper]_vars

(* C11: the validity check of a proxy key whose stored proxy_data no       *)
(* longer hashes to its stored proxy_key_hash answers invalid with a       *)
(* fingerprint mismatch, never valid.                                      *)
C11_TamperedIsNeverValid ==
  (/\ response.op = "checkValidity"
   /\ response.id \in ProxyIds
   /\ Sha256(proxy_keys[response.id].proxy_data) # proxy_keys[response.id].proxy_key_hash)
    => (response.status = "invalid" /\ response.detail = "fingerprint_mismatch")

(***************************************************************************)
(* Issuance                                                                *)
(***************************************************************************)

(* The owner public key an encrypted_data row was sealed for: the row's    *)
(* own owner_public_key column is not filled, the key_hash binds it.       *)
RecordOwner(encryption_id) == encrypted_data[encryption_id].key_hash[2][2]

(* C12: generateProxyKey succeeds for a locator only when the public key   *)
(* of the supplied owner private key is the owner public key of the        *)
(* encrypted record of that locator.                                       *)
C12_IssueOnlyByRecordOwner ==
  (/\ response.op = "generateProxyKey"
   /\ response.status = "ok"
   /\ response.id \in ProxyIds)
    => \A e \in EncryptionIds :
         encrypted_data[e].locator = proxy_keys[response.id].locator
           => RecordOwner(e) = PublicOf(response.key)

(* C13: every stored proxy key has an encrypted record of its own locator: *)
(* a proxy key for a locator without such a record is refused when it is   *)
(* issued.                                                                 *)
C13_ProxyKeyLocatorHasRecord ==
  \A p \in ProxyIds :
    \E e \in EncryptionIds : encrypted_data[e].locator = proxy_keys[p].locator

(* The hours a client may write into a request: both sides of both bounds  *)
(* of the schema field.                                                    *)
RequestedHours ==
  {0 - 1, 0, MinExpirationHours, MaxExpirationHours, MaxExpirationHours + 1}

RequestProxyKey == GenerateProxyKeyWith(RequestedHours)

RequestSecureShare == CreateSecureShareWith(RequestedHours)

NextIssue ==
  \/ Tick
  \/ Respond
  \/ RequestProxyKey
  \/ RequestSecureShare

SpecIssue == Init /\ [][NextIssue]_vars

(* C14: generateProxyKey and createSecureShare with expiration_hours below *)
(* 1 or above 8760 are refused with the validation error and write no row; *)
(* an accepted request stores exactly the hours it asked for, so every     *)
(* stored proxy key has expires_at later than created_at.                  *)
C14_ExpirationHoursAreValidated ==
  [][/\ \A p \in DOMAIN proxy_keys' :
          proxy_keys'[p].expires_at > proxy_keys'[p].created_at
     /\ (Idle /\ response'.op \in {"generateProxyKey", "createSecureShare"})
          => IF \/ response'.expiration_hours < MinExpirationHours
                \/ response'.expiration_hours > MaxExpirationHours
               THEN /\ response'.status = "error"
                    /\ response'.detail = ValidationError
                    /\ db' = db
               ELSE response'.status = "ok"
                      => /\ Len(proxy_keys') = Len(proxy_keys) + 1
                         /\ proxy_keys'[Len(proxy_keys')].expires_at
                              = proxy_keys'[Len(proxy_keys')].created_at
                                + response'.expiration_hours]_vars

(* A request for one hour more than the schema allows, refused while the   *)
(* store holds a proxy key issued for exactly the largest allowed span.    *)
C14_Witness ==
  /\ response.op = "generateProxyKey"
  /\ response.expiration_hours = MaxExpirationHours + 1
  /\ response.status = "error"
  /\ \E p \in ProxyIds :
       proxy_keys[p].expires_at = proxy_keys[p].created_at + MaxExpirationHours

(***************************************************************************)
(* Atomicity of share creation                                             *)
(***************************************************************************)

StorageError == "storage error"

(* POST /createSecureShare/ when the database raises in one of the four    *)
(* inserts of the handler (encrypted data, proxy key, re-encrypted data,   *)
(* share record, in this order): each CRUD create commits on its own, so   *)
(* the rows inserted before the failing one stay, and the handler answers  *)
(* with the error.                                                         *)
CreateSecureShareInterrupted ==
  \E content \in Contents, req \in ShareRequests, expiration_hours \in ExpirationHours,
     aes_key \in AesKeys, failing \in 1..4 :
    LET encrypted == encrypt_for_owner(content, PublicOf(req.owner_private_key),
                                       req.locator, aes_key, Len(encrypted_data) + 1)
        proxy_key == generate_proxy_key(req.owner_private_key, req.recipient_public_key,
                                        req.locator, expiration_hours, Len(proxy_keys) + 1)
        re_encrypted == re_encrypt_data(encrypted, proxy_key, Len(re_encrypted_data) + 1)
    IN /\ Idle
       /\ ValidExpirationHours(expiration_hours)
       /\ Len(proxy_keys) < MaxProxyKeys
       /\ Len(encrypted_data) < MaxEncrypted
       /\ Len(re_encrypted_data) < MaxReEncrypted
       /\ re_encrypted.ok
       /\ encrypted_data' =
            IF failing > 1 THEN Append(encrypted_data, create_encrypted_data(encrypted))
            ELSE encrypted_data
       /\ proxy_keys' =
            IF failing > 2 THEN Append(proxy_keys, create_proxy_key(proxy_key))
            ELSE proxy_keys
       /\ re_encrypted_data' =
            IF failing > 3
              THEN Append(re_encrypted_data, create_re_encrypted_data(re_encrypted.value))
              ELSE re_encrypted_data
       /\ response' = IssueResult("createSecureShare", NoId, req.owner_private_key,
                                  "error", StorageError, expiration_hours)
       /\ UNCHANGED <<sessions, now, share_records, revoke_acks>>

NextStore ==
  \/ Tick
  \/ Respond
  \/ CreateSecureShare
  \/ CreateSecureShareInterrupted
  \/ CreateShare

SpecStore == Init /\ [][NextStore]_vars

(* C15: a share creation that answers with an error has written no        *)
(* encrypted data, proxy key, re-encrypted data or share record.           *)
C15_FailedCreationWritesNothing ==
  [][(/\ Idle
      /\ response'.op \in {"createSecureShare", "createShare"}
      /\ response'.status = "error")
       => db' = db]_vars

(***************************************************************************)
(* Reported status of shares                                               *)
(***************************************************************************)

(* ShareRecordCRUD.get_active_shares: the active share rows of a locator. *)
get_active_shares(locator) ==
  SelectSeq(share_records, LAMBDA share : share.locator = locator /\ share.is_active = TRUE)

(* SecureSharingService.list_active_shares with a locator and an optional  *)
(* owner filter ("" when absent): the share_info entries it returns.       *)
list_active_shares(locator, owner_public_key) ==
  LET shares == get_active_shares(locator)
      kept == SelectSeq(shares, LAMBDA share :
                ~(/\ owner_public_key # ""
                  /\ share.proxy_id \in ProxyIds
                  /\ proxy_keys[share.proxy_id].owner_public_key # owner_public_key))
  IN [i \in DOMAIN kept |->
        [share_id |-> kept[i].share_id,
         locator |-> kept[i].locator,
         recipient_public_key |-> kept[i].recipient_public_key,
         expires_at |-> IF kept[i].proxy_id \in ProxyIds
                          THEN IsoFormat(proxy_keys[kept[i].proxy_id].expires_at)
                          ELSE IsoFormat(NoneTime),
         is_active |-> /\ kept[i].is_active
                       /\ \/ kept[i].proxy_id \notin ProxyIds
                          \/ ~proxy_keys[kept[i].proxy_id].is_revoked]]

(* GET /listShares/ *)
ListShares ==
  \E locator \in Locators, owner_public_key \in OwnerPublicKeys \cup {""} :
    /\ Idle
    /\ response' = [op |-> "listShares", id |-> NoId, key |-> owner_public_key,
                    status |-> "ok", detail |-> locator,
                    shares |-> list_active_shares(locator, owner_public_key)]
    /\ UNCHANGED <<sessions, now, db, revoke_acks>>

(* GET /shareStatus/{share_id} *)
get_share_status(share_id) ==
  LET share_record == share_records[share_id]
      proxy_key == proxy_keys[share_record.proxy_id]
      is_expired == now > proxy_key.expires_at
      is_revoked == proxy_key.is_revoked
  IN [share_id |-> share_id,
      is_active |-> share_record.is_active /\ ~is_expired /\ ~is_revoked,
      is_revoked |-> is_revoked,
      is_expired |-> is_expired]

ShareStatus ==
  \E share_id \in 1..(Len(share_records) + 1) :
    /\ Idle
    /\ response' =
         IF share_id \notin ShareIds
           THEN Result("shareStatus", share_id, "", "error", "Share not found")
           ELSE [op |-> "shareStatus", id |-> share_id, key |-> "", status |-> "ok",
                 detail |-> "", share |-> get_share_status(share_id)]
    /\ UNCHANGED <<sessions, now, db, revoke_acks>>

NextListing ==
  \/ Tick
  \/ Respond
  \/ CreateSecureShare
  \/ RevokeShare
  \/ ListShares
  \/ ShareStatus

SpecListing == Init /\ [][NextListing]_vars

(* The status the specification derives for a share: its proxy key is      *)
(* neither revoked nor expired now.                                        *)
DerivedActive(share_id) ==
  /\ ~KeyOfShare(share_id).is_revoked
  /\ ~(now > KeyOfShare(share_id).expires_at)

(* C16: the is_active reported for a share by listShares and by            *)
(* shareStatus is true exactly when the share's proxy key is not revoked   *)
(* and not expired at the time of the read.                                *)
C16_ReportedActiveIsDerived ==
  /\ (response.op = "shareStatus" /\ response.status = "ok")
       => response.share.is_active = DerivedActive(response.id)
  /\ response.op = "listShares"
       => \A i \in DOMAIN response.shares :
            response.shares[i].is_active = DerivedActive(response.shares[i].share_id)

(***************************************************************************)
(* Expiry and the revoked flag                                             *)
(***************************************************************************)

(* The requests by which a proxy key is revoked. *)
RevocationRequests ==
  {"revokeShare", "revokeProxyKey", "revokeAllProxyKeys", "revokeAllShares"}

(* C17: the passing of expires_at is never written to the store: a proxy   *)
(* key that no revocation request revokes keeps is_revoked false and       *)
(* revoked_at unset through every operation.                               *)
C17_ExpiryIsNotPersisted ==
  [][\A p \in ProxyIds :
       (/\ ~proxy_keys[p].is_revoked
        /\ response'.op \notin RevocationRequests)
         => (/\ proxy_keys'[p].is_revoked = FALSE
             /\ proxy_keys'[p].revoked_at = NoneTime)]_vars

(***************************************************************************)
(* The ledger                                                              *)
(***************************************************************************)

BeginRevokeShare(c) ==
  \E share_id \in 1..(Len(share_records) + 1), owner_private_key \in OwnerPrivateKeys :
    /\ sessions[c].pc \in {"idle", "returned"}
    /\ sessions' = [sessions EXCEPT ![c] =
                      [NoSession EXCEPT !.pc = "get_share_record",
                                        !.share_id = share_id,
                                        !.owner_private_key = owner_private_key]]
    /\ UNCHANGED <<now, db, response, revoke_acks>>

(* share_record = ShareRecordCRUD.get_share_record(db, share_id) *)
GetShareRecord(c) ==
  /\ sessions[c].pc = "get_share_record"
  /\ sessions' = [sessions EXCEPT ![c] =
                    IF sessions[c].share_id \notin ShareIds
                      THEN [@ EXCEPT !.pc = "returned", !.status = "error",
                                     !.detail = "Share record not found"]
                      ELSE [@ EXCEPT !.pc = "get_proxy_key",
                                     !.proxy_id = share_records[sessions[c].share_id].proxy_id]]
  /\ UNCHANGED <<now, db, response, revoke_acks>>

(* proxy_key_record = ProxyKeyCRUD.get_proxy_key(...), the proxy_key_dict  *)
(* built from it, and ProxyEncryptionService.revoke_proxy_key on the dict. *)
GetProxyKey(c) ==
  /\ sessions[c].pc = "get_proxy_key"
  /\ sessions' = [sessions EXCEPT ![c] =
       IF sessions[c].proxy_id \notin ProxyIds
         THEN [@ EXCEPT !.pc = "returned", !.status = "error",
                        !.detail = "Proxy key not found"]
       ELSE LET proxy_key_record == proxy_keys[sessions[c].proxy_id]
                proxy_key_dict == [proxy_id |-> proxy_key_record.proxy_id,
                                   owner_public_key |-> proxy_key_record.owner_public_key,
                                   is_revoked |-> proxy_key_record.is_revoked]
                result == revoke_proxy_key(proxy_key_dict, sessions[c].owner_private_key)
            IN IF ~result.ok
                 THEN [@ EXCEPT !.pc = "returned", !.status = "error",
                                !.detail = result.error]
                 ELSE [@ EXCEPT !.pc = "revoke_proxy_key",
                                !.is_revoked = proxy_key_dict.is_revoked]]
  /\ UNCHANGED <<now, db, response, revoke_acks>>

(* ProxyKeyCRUD.revoke_proxy_key(db, proxy_key_record.proxy_id), committed *)
CrudRevokeProxyKey(c) ==
  /\ sessions[c].pc = "revoke_proxy_key"
  /\ proxy_keys' = crud_revoke_proxy_key(proxy_keys, sessions[c].proxy_id)
  /\ sessions' = [sessions EXCEPT ![c].pc = "deactivate_share"]
  /\ UNCHANGED <<now, encrypted_data, re_encrypted_data, share_records, response,
                 revoke_acks>>

(* ShareRecordCRUD.deactivate_share(db, share_id), committed *)
CrudDeactivateShare(c) ==
  /\ sessions[c].pc = "deactivate_share"
  /\ share_records' = deactivate_share(share_records, sessions[c].share_id)
  /\ sessions' = [sessions EXCEPT ![c].pc = "emit"]
  /\ UNCHANGED <<now, proxy_keys, encrypted_data, re_encrypted_data, response,
                 revoke_acks>>

(* The ledger call of revoke_data_share and the answer of the route. *)
ReturnRevokeShare(c) ==
  \E chain \in LedgerOutcomes :
    /\ sessions[c].pc = "emit"
    /\ sessions' = [sessions EXCEPT ![c] =
                      IF emit_to_ledger(chain).failed
                        THEN [@ EXCEPT !.pc = "returned", !.status = "error",
                                       !.detail = "ledger"]
                        ELSE [@ EXCEPT !.pc = "returned", !.status = "ok"]]
    /\ UNCHANGED <<now, db, response, revoke_acks>>

RevokeShareStep(c) ==
  \/ BeginRevokeShare(c)
  \/ GetShareRecord(c)
  \/ GetProxyKey(c)
  \/ CrudRevokeProxyKey(c)
  \/ CrudDeactivateShare(c)
  \/ ReturnRevokeShare(c)

NextRace ==
  \/ Tick
  \/ Respond
  \/ CreateSecureShare
  \/ \E c \in Clients : RevokeShareStep(c)

SpecRace == Init /\ [][NextRace]_vars

(* The request of client c is the owner's and found the share it names. *)
OwnerRevoke(c) ==
  /\ sessions[c].proxy_id \in ProxyIds
  /\ PublicOf(sessions[c].owner_private_key)
       = KeyOfShare(sessions[c].share_id).owner_public_key

(* C19: however the reads and writes of two revokeShare requests of the    *)
(* owner interleave, neither request fails, and each one that has returned *)
(* answered with success and leaves the proxy key revoked and the share    *)
(* deactivated.                                                            *)
C19_ConcurrentRevokesBothSucceed ==
  \A c \in Clients :
    OwnerRevoke(c) =>
      /\ sessions[c].status # "error"
      /\ sessions[c].pc = "returned" =>
           /\ sessions[c].status = "ok"
           /\ KeyOfShare(sessions[c].share_id).is_revoked
           /\ ~share_records[sessions[c].share_id].is_active

(* Both clients revoked the same share as its owner, each read the proxy   *)
(* key before the other had written it, and both have returned.            *)
C19_Witness ==
  /\ \A c \in Clients :
       /\ OwnerRevoke(c)
       /\ sessions[c].pc = "returned"
       /\ sessions[c].status = "ok"
       /\ ~sessions[c].is_revoked
  /\ sessions[1].share_id = sessions[2].share_id
  /\ KeyOfShare(sessions[1].share_id).is_revoked

(***************************************************************************)
(* Key material at rest                                                    *)
(***************************************************************************)

(* What a reader of an encrypted_data row learns from its encrypted_key    *)
(* column without holding any private key: base64 is decoded by anyone.    *)
ReadableKey(encryption_id) == B64Decode(encrypted_data[encryption_id].encrypted_key)

(* The key-bearing columns of a stored proxy key. *)
ProxyKeyMaterial(proxy_id) ==
  {proxy_keys[proxy_id].owner_public_key,
   proxy_keys[proxy_id].recipient_public_key,
   proxy_keys[proxy_id].proxy_data.owner_key_point,
   proxy_keys[proxy_id].proxy_data.recipient_key_point}

(* C20: no stored record yields the raw content key without the owner's    *)
(* private key, and no stored proxy key holds a private key or the content *)
(* key.                                                                    *)
C20_NoRawContentKeyAtRest ==
  /\ \A p \in ProxyIds : ProxyKeyMaterial(p) \cap (PrivateKeys \cup AesKeys) = {}
  /\ \A e \in EncryptionIds : ReadableKey(e) \notin AesKeys

(***************************************************************************)
(* Re-encryption requests                                                  *)
(***************************************************************************)

(* The proxy_key dicts a client may send with a proxy_id: the request      *)
(* schema takes any dict, so the locator, the recipient and the revoked    *)
(* flag are the client's to choose.                                        *)
AnyProxyKeys(proxy_id) ==
  IF proxy_id \in ProxyIds
    THEN {[proxy_id |-> proxy_id,
           locator |-> locator,
           owner_public_key |-> proxy_keys[proxy_id].owner_public_key,
           recipient_public_key |-> recipient,
           expires_at |-> IsoFormat(proxy_keys[proxy_id].expires_at),
           is_revoked |-> revoked] :
            locator \in Locators, recipient \in RecipientPublicKeys,
            revoked \in BOOLEAN}
    ELSE {[proxy_id |-> proxy_id]}

RequestReEncryption ==
  ReEncryptDataWith([proxy_id \in 1..(Len(proxy_keys) + 1) |-> AnyProxyKeys(proxy_id)])

NextReEncrypt ==
  \/ Tick
  \/ Respond
  \/ GenerateProxyKey
  \/ CreateSecureShare
  \/ RevokeProxyKey
  \/ RequestReEncryption

SpecReEncrypt == Init /\ [][NextReEncrypt]_vars

(* The row a reEncryptData step has just added. *)
NewPackage == re_encrypted_data'[Len(re_encrypted_data')]

(* The encrypted record a package was made from. *)
RecordOfPackage(package) == encrypted_data[package.original_encryption_id]

Retained(proxy_key) ==
  [proxy_id |-> proxy_key.proxy_id,
   locator |-> proxy_key.locator,
   owner_public_key |-> proxy_key.owner_public_key,
   recipient_public_key |-> proxy_key.recipient_public_key,
   proxy_key_hash |-> proxy_key.proxy_key_hash,
   proxy_data |-> proxy_key.proxy_data,
   created_at |-> proxy_key.created_at,
   expires_at |-> proxy_key.expires_at]

(* C22: every step keeps every stored proxy key, with everything but       *)
(* is_revoked and revoked_at unchanged, and keeps every stored encrypted   *)
(* record with all its columns unchanged.                                  *)
C22_RowsAreRetained ==
  [][/\ Len(proxy_keys') >= Len(proxy_keys)
     /\ \A p \in ProxyIds : Retained(proxy_keys'[p]) = Retained(proxy_keys[p])
     /\ Len(encrypted_data') >= Len(encrypted_data)
     /\ \A e \in EncryptionIds : encrypted_data'[e] = encrypted_data[e]]_vars

(* A proxy key revoked after its expiry, and a second encrypted record     *)
(* stored under the locator of the first.                                  *)
C22_Witness ==
  /\ \E p \in ProxyIds :
       /\ proxy_keys[p].is_revoked
       /\ proxy_keys[p].revoked_at > proxy_keys[p].expires_at
  /\ \E e, f \in EncryptionIds :
       e # f /\ encrypted_data[e].locator = encrypted_data[f].locator

(***************************************************************************)
(* Bulk revocation count                                                   *)
(***************************************************************************)

(* The proxy keys a step moved from not revoked to revoked. *)
NewlyRevoked == {p \in ProxyIds : ~proxy_keys[p].is_revoked /\ proxy_keys'[p].is_revoked}

(* The proxy keys of a locator and owner. *)
KeysOf(locator, owner_public_key) ==
  {p \in ProxyIds : /\ proxy_keys[p].locator = locator
                    /\ proxy_keys[p].owner_public_key = owner_public_key}

(* C23: revokeAllProxyKeys revokes every unrevoked proxy key of the        *)
(* locator and owner, answers with the number of keys it moved to revoked, *)
(* leaves the keys already revoked as they were, and when every matching   *)
(* key is already revoked it answers 0 and changes nothing.                *)
C23_BulkRevokeCountsWhatItRevoked ==
  [][(Idle /\ response'.op = "revokeAllProxyKeys")
       => LET matching == KeysOf(response'.detail, response'.key)
          IN /\ \A p \in matching : proxy_keys'[p].is_revoked
             /\ NewlyRevoked = {p \in matching : ~proxy_keys[p].is_revoked}
             /\ response'.revoked_count = Cardinality(NewlyRevoked)
             /\ \A p \in ProxyIds : proxy_keys[p].is_revoked => proxy_keys'[p] = proxy_keys[p]
             /\ (\A p \in matching : proxy_keys[p].is_revoked)
                  => (response'.revoked_count = 0 /\ proxy_keys' = proxy_keys)]_vars

(* A repeated revokeAllProxyKeys at a later time: it answers 0 and the key *)
(* revoked by the first call keeps its revoked_at.                         *)
C23_Witness ==
  /\ response.op = "revokeAllProxyKeys"
  /\ response.revoked_count = 0
  /\ \E p \in KeysOf(response.detail, response.key) :
       /\ proxy_keys[p].is_revoked
       /\ proxy_keys[p].revoked_at < now

(***************************************************************************)
(* Terminal states                                                         *)
(***************************************************************************)

(* The answer in flight rejects proxy key p as revoked or expired: an      *)
(* accessShare on one of its shares, or a verifyProxyKey naming it.        *)
RejectedAsDead(p) ==
  \/ /\ response.op = "accessShare"
     /\ response.status = "error"
     /\ response.detail \in {"Proxy key has been revoked", "Proxy key has expired"}
     /\ response.id \in ShareIds
     /\ share_records[response.id].proxy_id = p
  \/ /\ response.op = "verifyProxyKey"
     /\ response.status = "invalid"
     /\ response.detail \in {"revoked", "expired"}
     /\ response.id = p

(* The answer in flight is a successful accessShare or reEncryptData with  *)
(* proxy key p.                                                            *)
UsedSuccessfully(p) ==
  \/ /\ response.op = "accessShare"
     /\ response.status = "ok"
     /\ response.id \in ShareIds
     /\ share_records[response.id].proxy_id = p
  \/ /\ response.op = "reEncryptData"
     /\ response.status = "ok"
     /\ response.id = p

(* Proxy key p can no longer be used: it is revoked or past its expiry. *)
Dead(p) == proxy_keys[p].is_revoked \/ now > proxy_keys[p].expires_at

(* C24: once accessShare or verifyProxyKey has rejected a proxy key as     *)
(* revoked or expired, no later accessShare or reEncryptData with that key *)
(* succeeds: a key is rejected as revoked or expired only when it is       *)
(* revoked or past its expiry, no step takes a key out of that condition,  *)
(* and accessShare and reEncryptData succeed only outside it.              *)
C24_DeadKeysStayDead ==
  [][\A p \in ProxyIds :
       /\ Dead(p) => Dead(p)'
       /\ (Idle /\ RejectedAsDead(p)') => Dead(p)
       /\ (Idle /\ UsedSuccessfully(p)') => ~Dead(p)]_vars

(* An accessShare rejected as revoked on a share that is still active,     *)
(* some time after its proxy key was revoked.                              *)
C24_Witness ==
  /\ response.op = "accessShare"
  /\ response.detail = "Proxy key has been revoked"
  /\ response.id \in ShareIds
  /\ share_records[response.id].is_active
  /\ RejectedAsDead(share_records[response.id].proxy_id)
  /\ KeyOfShare(response.id).revoked_at < now

(***************************************************************************)
(* Authority over revokeProxyKey                                           *)
(***************************************************************************)

(* C25: revokeProxyKey marks a stored proxy key revoked only when the      *)
(* caller's private key derives the owner_public_key stored for that       *)
(* proxy_id.                                                               *)
C25_OnlyStoredOwnerRevokesKey ==
  [][\A p \in ProxyIds :
       (/\ Idle
        /\ response'.op = "revokeProxyKey"
        /\ response'.id = p
        /\ ~proxy_keys[p].is_revoked
        /\ proxy_keys'[p].is_revoked)
         => PublicOf(response'.key) = proxy_keys[p].owner_public_key]_vars

(***************************************************************************)
(* The share rows and the revoked flag                                     *)
(***************************************************************************)

(* C26: when a revocation or the sweep of expired keys has completed, no   *)
(* share row with is_active = TRUE references a revoked proxy key.         *)
C26_NoActiveShareOnRevokedKey ==
  [][(/\ Idle
      /\ response'.op \in RevocationRequests \cup {"cleanupExpiredProxyKeys"}
      /\ response'.status = "ok")
       => \A s \in ShareIds :
            share_records'[s].is_active
              => ~proxy_keys'[share_records'[s].proxy_id].is_revoked]_vars

(***************************************************************************)
(* The frame of revokeAllShares                                            *)
(***************************************************************************)

(* C27: revokeAllShares for a locator and owner leaves every share row of  *)
(* another owner as it was, is_active included.                            *)
C27_BulkShareRevokeKeepsOtherOwners ==
  [][(Idle /\ response'.op = "revokeAllShares")
       => \A s \in ShareIds :
            share_records[s].owner_public_key # response'.key
              => share_records'[s] = share_records[s]]_vars

(***************************************************************************)
(* The binding of a package to its proxy key                               *)
(***************************************************************************)

(* C28: every stored re-encrypted data row names a stored proxy key and    *)
(* carries the locator and recipient_public_key stored for that key.       *)
C28_PackageBoundToStoredKey ==
  \A r \in 1..Len(re_encrypted_data) :
    /\ re_encrypted_data[r].proxy_id \in ProxyIds
    /\ re_encrypted_data[r].locator = proxy_keys[re_encrypted_data[r].proxy_id].locator
    /\ re_encrypted_data[r].recipient_public_key
         = proxy_keys[re_encrypted_data[r].proxy_id].recipient_public_key

(***************************************************************************)
(* Listing and metrics of proxy keys                                       *)
(***************************************************************************)

(* ProxyKeyCRUD.get_active_proxy_keys: the rows of the locator that are    *)
(* not revoked and whose expires_at is later than now.                     *)
get_active_proxy_keys(locator) ==
  {p \in ProxyIds : /\ proxy_keys[p].locator = locator
                    /\ proxy_keys[p].is_revoked = FALSE
                    /\ proxy_keys[p].expires_at > now}

(* GET /activeProxyKeys/{locator} *)
ActiveProxyKeys ==
  \E locator \in Locators :
    /\ Idle
    /\ response' = [op |-> "activeProxyKeys", id |-> NoId, key |-> "", status |-> "ok",
                    detail |-> locator,
                    active_count |-> Cardinality(get_active_proxy_keys(locator)),
                    proxy_keys |-> get_active_proxy_keys(locator)]
    /\ UNCHANGED <<sessions, now, db, revoke_acks>>

NoLocator == "None"

(* ProxyMetricsCRUD.get_proxy_metrics: four counts over the rows of the    *)
(* locator, or over all rows when no locator is given.                     *)
get_proxy_metrics(locator) ==
  LET base_query == {p \in ProxyIds : locator = NoLocator \/ proxy_keys[p].locator = locator}
  IN [total_shares |-> Cardinality(base_query),
      active_shares |-> Cardinality({p \in base_query :
                           proxy_keys[p].is_revoked = FALSE /\ proxy_keys[p].expires_at > now}),
      revoked_shares |-> Cardinality({p \in base_query : proxy_keys[p].is_revoked = TRUE}),
      expired_shares |-> Cardinality({p \in base_query :
                           proxy_keys[p].is_revoked = FALSE /\ proxy_keys[p].expires_at <= now}),
      locator |-> locator]

(* GET /proxyMetrics/ *)
ProxyMetrics ==
  \E locator \in Locators \cup {NoLocator} :
    /\ Idle
    /\ response' = [op |-> "proxyMetrics", id |-> NoId, key |-> "", status |-> "ok",
                    detail |-> locator, metrics |-> get_proxy_metrics(locator)]
    /\ UNCHANGED <<sessions, now, db, revoke_acks>>

NextKeys ==
  \/ Tick
  \/ Respond
  \/ GenerateProxyKey
  \/ RevokeAllProxyKeys
  \/ ActiveProxyKeys
  \/ ProxyMetrics

SpecKeys == Init /\ [][NextKeys]_vars

(* The stored proxy keys of a locator that verify_proxy_key_validity holds *)
(* valid.                                                                  *)
ValidKeys(locator) ==
  {p \in ProxyIds : /\ proxy_keys[p].locator = locator
                    /\ verify_proxy_key_validity(StoredProxyKey(p)).valid}

(* C29: the listing of active proxy keys of a locator is the set of its    *)
(* stored keys that verify_proxy_key_validity holds valid, and the metrics *)
(* satisfy total = active + revoked + expired.                             *)
C29_ListingAgreesWithValidity ==
  /\ response.op = "activeProxyKeys" => response.proxy_keys = ValidKeys(response.detail)
  /\ response.op = "proxyMetrics"
       => response.metrics.total_shares
            = response.metrics.active_shares + response.metrics.revoked_shares
                + response.metrics.expired_shares

(***************************************************************************)
(* The owner of a stored encrypted record                                  *)
(***************************************************************************)

NextSeal ==
  \/ Tick
  \/ Respond
  \/ EncryptForOwner
  \/ CreateSecureShare

SpecSeal == Init /\ [][NextSeal]_vars

(* C30: every stored encrypted record carries, in owner_public_key, the    *)
(* public key its content was sealed for.                                  *)
C30_RecordStoresItsOwner ==
  \A e \in EncryptionIds : encrypted_data[e].owner_public_key = RecordOwner(e)
====
